---- MODULE Spec2Model ----
(***************************************************************************)
(* Model of falcoctl's root command (cmd/root.go): the bootstrap run by    *)
(* PersistentPreRun (validateConfig, initLogger, initConfig, initEnv,      *)
(* initFlags, debugFlags) over a pflag flag set and the viper store, and   *)
(* the signal-aware context built by WithSignals.                          *)
(***************************************************************************)
EXTENDS Integers, Sequences, FiniteSets, TLC

\* ------------------------------------------------------------------ bounds
\* at most MaxEnv environment variables are set for the process
MaxEnv == 1
\* at most MaxFile keys are present in the configuration file
MaxFile == 1
\* at most MaxErrs errors are returned by ConfigOptions.Validate
MaxErrs == 2
\* at most MaxSignals signals are delivered to the process
MaxSignals == 2
\* initFlags is run at most MaxResolve times (SpecRerun only)
MaxResolve == 2

\* ------------------------------------------------------------- flag names
\* The flags of the executing command: the two persistent flags of the root
\* command, cobra's help flag, and two flags registered by a subcommand (one
\* string-typed, one bool-typed).
RootFlags == {"config", "loglevel", "help"}
SubcommandFlags == {"registry-url", "dry-run"}
Names == RootFlags \cup SubcommandFlags

\* pflag's VisitAll visits the flags in lexicographical order.
SortedNames == <<"config", "dry-run", "help", "loglevel", "registry-url">>

FlagType(n) == IF n \in {"help", "dry-run"} THEN "bool" ELSE "string"

DefValue(n) ==
  CASE n = "config"       -> ""
    [] n = "loglevel"     -> "info"
    [] n = "help"         -> "false"
    [] n = "registry-url" -> ""
    [] n = "dry-run"      -> "true"

\* The exclusion map literal passed to initFlags.
exclude == [config |-> TRUE, loglevel |-> TRUE, help |-> TRUE, registryurl |-> FALSE]

\* Faulty variant of Excluded: the exclusion check is dropped.
ExcludedNever(n) == FALSE

\* exclude[f.Name]: a missing key of a Go map[string]bool reads as false.
Excluded(n) == n \in DOMAIN exclude /\ exclude[n]

\* -------------------------------------------------------- string spelling
\* Flag names spelled as character sequences, for the environment key rule.
Chars(n) ==
  CASE n = "config"       -> <<"c","o","n","f","i","g">>
    [] n = "loglevel"     -> <<"l","o","g","l","e","v","e","l">>
    [] n = "help"         -> <<"h","e","l","p">>
    [] n = "registry-url" -> <<"r","e","g","i","s","t","r","y","-","u","r","l">>
    [] n = "dry-run"      -> <<"d","r","y","-","r","u","n">>

Lower == <<"a","b","c","d","e","f","g","h","i","j","k","l","m",
           "n","o","p","q","r","s","t","u","v","w","x","y","z">>
Upper == <<"A","B","C","D","E","F","G","H","I","J","K","L","M",
           "N","O","P","Q","R","S","T","U","V","W","X","Y","Z">>

\* strings.ToUpper
ToUpper(s) ==
  [i \in 1..Len(s) |->
     IF \E k \in 1..Len(Lower) : Lower[k] = s[i]
     THEN Upper[CHOOSE k \in 1..Len(Lower) : Lower[k] = s[i]]
     ELSE s[i]]

\* strings.NewReplacer(old, new).Replace for single characters
Replace(s, old, new) == [i \in 1..Len(s) |-> IF s[i] = old THEN new ELSE s[i]]

\* The names of the environment variables the process may have set.
EnvConfig      == <<"F","A","L","C","O","C","T","L","_","C","O","N","F","I","G">>
EnvLoglevel    == <<"F","A","L","C","O","C","T","L","_","L","O","G","L","E","V","E","L">>
EnvHelp        == <<"F","A","L","C","O","C","T","L","_","H","E","L","P">>
EnvRegistryUrl == <<"F","A","L","C","O","C","T","L","_","R","E","G","I","S","T","R","Y","_","U","R","L">>
EnvDryRun      == <<"F","A","L","C","O","C","T","L","_","D","R","Y","_","R","U","N">>

\* The variable that the documented rule (prefix, '-' to '_') gives a flag.
EnvVarOf(n) ==
  CASE n = "config"       -> EnvConfig
    [] n = "loglevel"     -> EnvLoglevel
    [] n = "help"         -> EnvHelp
    [] n = "registry-url" -> EnvRegistryUrl
    [] n = "dry-run"      -> EnvDryRun

EnvVars == {EnvVarOf(n) : n \in Names}

\* ------------------------------------------------------------ input sets
\* Values the command line may have given each flag (a --help run never
\* reaches PersistentPreRun, so help is never given).
ArgValues(n) ==
  CASE n = "config"       -> {"/etc/falcoctl.yaml"}
    [] n = "loglevel"     -> {"debug", "bogus"}
    [] n = "help"         -> {}
    [] n = "registry-url" -> {"", "x"}
    [] n = "dry-run"      -> {"false"}

\* Values an environment variable may hold.
EnvValues(e) ==
  IF e \in {EnvRegistryUrl, EnvDryRun} THEN {"", "x", "false"} ELSE {"x"}

\* Values a key of the configuration file may hold.
FileValues(n) ==
  CASE n = "registry-url" -> {"y"}
    [] n = "dry-run"      -> {"y", "true"}
    [] OTHER              -> {"y"}

\* Partial functions on D with at most k entries, each value from vals[key].
Partial(D, vals, k) ==
  UNION {{f \in [S -> UNION {vals[d] : d \in S}] : \A d \in S : f[d] \in vals[d]} :
          S \in {T \in SUBSET D : Cardinality(T) <= k}}

\* ------------------------------------------------------------------ state
VARIABLES
  pc,          \* the step PersistentPreRun is about to run, or "done" / "exit" / "killed"
  exitCode,    \* 1 once logger.Fatal has ended the process, else 0
  args,        \* what the command line supplied: flag name -> value
  environ,     \* the process environment: variable name -> value
  home,        \* result of homedir.Dir(): "ok", "error", or "unset" before the call
  fileStatus,  \* the config file met by ReadInConfig: "unread", "ok", "notfound", "malformed"
  fileContent, \* the key/value pairs decoded from the config file
  valErrs,     \* the error list returned by ConfigOptions.Validate
  flags,       \* the pflag.FlagSet: name -> [Value, Changed]
  viper,       \* the viper singleton
  logLevel,    \* the logger's level
  log,         \* the logger calls made so far
  fields,      \* the logger.Fields built by debugFlags
  setCalls,    \* names given to flags.Set by the latest initFlags run
  resolveRuns, \* number of initFlags runs
  steps,       \* the PersistentPreRun steps completed, in order
  sigCh,       \* the buffered signal channel (capacity 1)
  lpc,         \* position of the listener goroutine
  ctxDone,     \* the derived context is cancelled
  parentDone,  \* the parent context is cancelled
  cancelCalls, \* number of calls of cancel() by the listener
  delivered,   \* number of notified signals delivered so far
  signals      \* the signals sent to the process so far

bootVars == <<pc, exitCode, args, environ, home, fileStatus, fileContent, valErrs,
              flags, viper, logLevel, log, fields, setCalls, resolveRuns, steps>>
sigVars  == <<sigCh, lpc, ctxDone, parentDone, cancelCalls, delivered, signals>>
vars     == <<bootVars, sigVars>>

\* ----------------------------------------------------------------- logger
Entry(level, msg, err) == [level |-> level, msg |-> msg, err |-> err]

\* logrus.ParseLevel
LogLevels == {"panic", "fatal", "error", "warn", "warning", "info", "debug", "trace"}
ParseLevelOK(s) == s \in LogLevels

\* --------------------------------------------------------- ConfigOptions
\* configOptions is bound to the config and loglevel flags by StringVarP.
configOptions == [ConfigFile |-> flags["config"].Value, LogLevel |-> flags["loglevel"].Value]

\* ConfigOptions.Validate: an ordered list of errors, nil when there is none.
ValidateResults == {[i \in 1..k |-> i] : k \in 0..MaxErrs}

\* ------------------------------------------------------------------ maps
EmptyMap == [k \in {} |-> ""]

Put(m, k, v) == [x \in DOMAIN m \cup {k} |-> IF x = k THEN v ELSE m[x]]

\* ------------------------------------------------------------------ viper
\* The viper singleton before any call.
ViperInit ==
  [configFile          |-> "",
   configPaths         |-> {},
   configName          |-> "",
   configType          |-> "",
   config              |-> EmptyMap,
   automaticEnvApplied |-> FALSE,
   envPrefix           |-> <<>>,
   envKeyReplacer      |-> <<>>,
   defaults            |-> EmptyMap,
   pflags              |-> {}]

\* Faulty variant of BindPFlags: the call is left out, no flag is bound.
BindPFlagsOmitted(v, fl) == v

\* viper.BindPFlags(flags): every flag of the set is bound under its name.
BindPFlags(v, fl) == [v EXCEPT !.pflags = @ \cup DOMAIN fl]

\* viper.SetDefault(key, value)
SetDefault(v, key, value) == [v EXCEPT !.defaults = Put(@, key, value)]

\* viper's mergeWithEnvPrefix: strings.ToUpper(prefix + "_" + key)
mergeWithEnvPrefix(v, key) ==
  IF v.envPrefix # <<>> THEN ToUpper(v.envPrefix \o <<"_">> \o key) ELSE ToUpper(key)

\* viper's getEnv: the key replacer is applied, and a variable that is set to
\* the empty string counts as not set (AllowEmptyEnv is off).
EnvKey(v, n) ==
  LET key == mergeWithEnvPrefix(v, Chars(n))
  IN  IF v.envKeyReplacer # <<>>
      THEN Replace(key, v.envKeyReplacer[1], v.envKeyReplacer[2])
      ELSE key

HasEnv(v, e, n) == EnvKey(v, n) \in DOMAIN e /\ e[EnvKey(v, n)] # ""

\* strconv.ParseBool, on the spellings it accepts
TrueWords  == {"1", "t", "T", "TRUE", "true", "True"}
FalseWords == {"0", "f", "F", "FALSE", "false", "False"}
ParseBoolOK(s) == s \in TrueWords \cup FalseWords
ParseBool(s)   == IF s \in TrueWords THEN "true" ELSE "false"

\* The value viper reads from a changed flag, as GetString renders it.
FlagAsString(n, val) == IF FlagType(n) = "bool" THEN ParseBool(val) ELSE val

\* Faulty variant of GetString: the environment is consulted before the flag.
GetStringEnvFirst(v, fl, e, key) ==
  IF v.automaticEnvApplied /\ HasEnv(v, e, key) THEN e[EnvKey(v, key)]
  ELSE IF key \in v.pflags /\ fl[key].Changed THEN FlagAsString(key, fl[key].Value)
  ELSE IF key \in DOMAIN v.config THEN v.config[key]
  ELSE IF key \in DOMAIN v.defaults THEN v.defaults[key]
  ELSE IF key \in v.pflags THEN FlagAsString(key, fl[key].Value)
  ELSE ""

\* viper.GetString(key): viper's lookup order is a changed flag, the
\* environment, the config file, the registered default, and last the value
\* of a bound flag.
GetString(v, fl, e, key) ==
  IF key \in v.pflags /\ fl[key].Changed THEN FlagAsString(key, fl[key].Value)
  ELSE IF v.automaticEnvApplied /\ HasEnv(v, e, key) THEN e[EnvKey(v, key)]
  ELSE IF key \in DOMAIN v.config THEN v.config[key]
  ELSE IF key \in DOMAIN v.defaults THEN v.defaults[key]
  ELSE IF key \in v.pflags THEN FlagAsString(key, fl[key].Value)
  ELSE ""

\* viper.ReadInConfig: the error it returns for the file it meets.
ReadInConfig(v, status) ==
  IF v.configFile # ""
  THEN CASE status = "ok"         -> "nil"
         [] status = "malformed"  -> "ConfigParseError"
         [] OTHER                 -> "PathError"
  ELSE CASE status = "ok"         -> "nil"
         [] status = "notfound"   -> "ConfigFileNotFoundError"
         [] status = "malformed"  -> "ConfigParseError"
         [] OTHER                 -> "PathError"

\* ------------------------------------------------------------------ pflag
\* Faulty variant of Set: the flag is marked Changed whether or not its Value
\* accepts the text.
SetAlwaysChanged(fl, name, value) ==
  IF name \notin DOMAIN fl THEN fl
  ELSE IF FlagType(name) = "bool"
       THEN [fl EXCEPT ![name] = [Value |-> ParseBool(value), Changed |-> TRUE]]
       ELSE [fl EXCEPT ![name] = [Value |-> value, Changed |-> TRUE]]

\* flags.Set(name, value): the flag's Value parses the text; on success the
\* flag is marked Changed. A bool Value stores the result of ParseBool even
\* when parsing fails (false) and returns the error, which leaves Changed.
Set(fl, name, value) ==
  IF name \notin DOMAIN fl THEN fl
  ELSE IF FlagType(name) = "bool"
       THEN IF ParseBoolOK(value)
            THEN [fl EXCEPT ![name] = [Value |-> ParseBool(value), Changed |-> TRUE]]
            ELSE [fl EXCEPT ![name].Value = ParseBool(value)]
       ELSE [fl EXCEPT ![name] = [Value |-> value, Changed |-> TRUE]]

\* The flag set as command-line parsing leaves it.
Parsed(a) ==
  [n \in Names |->
     IF n \in DOMAIN a THEN [Value |-> a[n], Changed |-> TRUE]
     ELSE [Value |-> DefValue(n), Changed |-> FALSE]]

\* --------------------------------------------------------------- initFlags
\* Faulty variant of Visit: the resolved value is compared with the flag's
\* current value instead of its default.
VisitCompareCurrent(st, e, n) ==
  IF Excluded(n) THEN st
  ELSE LET v1 == SetDefault(st.viper, n, DefValue(n))
           v  == GetString(v1, st.flags, e, n)
       IN  IF v # st.flags[n].Value
           THEN [flags |-> Set(st.flags, n, v), viper |-> v1, sets |-> st.sets \cup {n}]
           ELSE [st EXCEPT !.viper = v1]

\* Faulty variant of Visit: flags already marked Changed are skipped.
VisitSkipChanged(st, e, n) ==
  IF Excluded(n) \/ st.flags[n].Changed THEN st
  ELSE LET v1 == SetDefault(st.viper, n, DefValue(n))
           v  == GetString(v1, st.flags, e, n)
       IN  IF v # DefValue(n)
           THEN [flags |-> Set(st.flags, n, v), viper |-> v1, sets |-> st.sets \cup {n}]
           ELSE [st EXCEPT !.viper = v1]

\* The callback initFlags passes to VisitAll, on the state
\* [flags, viper, sets] (sets: the names given to flags.Set).
Visit(st, e, n) ==
  IF Excluded(n) THEN st
  ELSE LET v1 == SetDefault(st.viper, n, DefValue(n))
           v  == GetString(v1, st.flags, e, n)
       IN  IF v # DefValue(n)
           THEN [flags |-> Set(st.flags, n, v), viper |-> v1, sets |-> st.sets \cup {n}]
           ELSE [st EXCEPT !.viper = v1]

RECURSIVE VisitAll(_, _, _)
VisitAll(st, e, i) ==
  IF i > Len(SortedNames) THEN st
  ELSE VisitAll(Visit(st, e, SortedNames[i]), e, i + 1)

\* initFlags(flags, exclude) as a function of the registry, the store and the
\* environment.
Resolve(fl, v, e) == VisitAll([flags |-> fl, viper |-> BindPFlags(v, fl), sets |-> {}], e, 1)

\* -------------------------------------------------------------- constants
configName == "config"
configDir  == ".falcoctl"

\* ------------------------------------------------------- bootstrap steps
\* Faulty variant of validateConfigStep: the errors are logged, logger.Fatal is not called.
validateConfigStepNoFatal(errs) ==
  [logs  |-> [i \in 1..Len(errs) |->
                Entry("error", "error validating config options", errs[i])],
   fatal |-> FALSE]

\* validateConfig: every error is logged, then logger.Fatal ends the process.
validateConfigStep(errs) ==
  IF errs # <<>>
  THEN [logs  |-> [i \in 1..Len(errs) |->
                     Entry("error", "error validating config options", errs[i])]
                  \o <<Entry("fatal", "exiting for validation errors", 0)>>,
        fatal |-> TRUE]
  ELSE [logs |-> <<>>, fatal |-> FALSE]

\* Faulty variant of initLoggerStep: the error of ParseLevel is ignored.
initLoggerStepNoFatal(level) ==
  [level |-> IF ParseLevelOK(level) THEN level ELSE logLevel, logs |-> <<>>, fatal |-> FALSE]

\* initLogger: an unparseable level is fatal, otherwise the level is set.
initLoggerStep(level) ==
  IF ~ParseLevelOK(level)
  THEN [level |-> logLevel, logs |-> <<Entry("fatal", "not a valid logrus Level", 0)>>,
        fatal |-> TRUE]
  ELSE [level |-> level, logs |-> <<>>, fatal |-> FALSE]

\* Faulty variant of initConfigStep: every error of ReadInConfig is fatal (the
\* ConfigFileNotFoundError test is missing).
initConfigStepAllFatal(v, configFile, h, status, content) ==
  LET v1  == IF configFile # ""
             THEN [v EXCEPT !.configFile = configFile]
             ELSE [v EXCEPT !.configPaths = @ \cup {<<"$HOME", configDir>>},
                            !.configName  = configName,
                            !.configType  = "yaml"]
      err == ReadInConfig(v1, status)
  IN  IF configFile = "" /\ h = "error"
      THEN [viper |-> v,
            logs  |-> <<Entry("fatal", "error getting the home directory", 0)>>,
            fatal |-> TRUE]
      ELSE IF err = "nil"
      THEN [viper |-> [v1 EXCEPT !.config = content],
            logs  |-> <<Entry("info", "using config file", 0)>>,
            fatal |-> FALSE]
      ELSE [viper |-> v1,
            logs  |-> <<Entry("fatal", "error running with config file", 0)>>,
            fatal |-> TRUE]

\* Faulty variant of initConfigStep: every error of ReadInConfig is ignored.
initConfigStepNoneFatal(v, configFile, h, status, content) ==
  LET v1  == IF configFile # ""
             THEN [v EXCEPT !.configFile = configFile]
             ELSE [v EXCEPT !.configPaths = @ \cup {<<"$HOME", configDir>>},
                            !.configName  = configName,
                            !.configType  = "yaml"]
      err == ReadInConfig(v1, status)
  IN  IF configFile = "" /\ h = "error"
      THEN [viper |-> v,
            logs  |-> <<Entry("fatal", "error getting the home directory", 0)>>,
            fatal |-> TRUE]
      ELSE IF err = "nil"
      THEN [viper |-> [v1 EXCEPT !.config = content],
            logs  |-> <<Entry("info", "using config file", 0)>>,
            fatal |-> FALSE]
      ELSE [viper |-> v1,
            logs  |-> <<Entry("debug", "running without a configuration file", 0)>>,
            fatal |-> FALSE]

\* initConfig(configFile), given the outcome h of homedir.Dir() and the
\* file (status, content) that ReadInConfig meets.
initConfigStep(v, configFile, h, status, content) ==
  LET v1  == IF configFile # ""
             THEN [v EXCEPT !.configFile = configFile]
             ELSE [v EXCEPT !.configPaths = @ \cup {<<"$HOME", configDir>>},
                            !.configName  = configName,
                            !.configType  = "yaml"]
      err == ReadInConfig(v1, status)
  IN  IF configFile = "" /\ h = "error"
      THEN [viper |-> v,
            logs  |-> <<Entry("fatal", "error getting the home directory", 0)>>,
            fatal |-> TRUE]
      ELSE IF err = "nil"
      THEN [viper |-> [v1 EXCEPT !.config = content],
            logs  |-> <<Entry("info", "using config file", 0)>>,
            fatal |-> FALSE]
      ELSE IF err = "ConfigFileNotFoundError"
      THEN [viper |-> v1,
            logs  |-> <<Entry("debug", "running without a configuration file", 0)>>,
            fatal |-> FALSE]
      ELSE [viper |-> v1,
            logs  |-> <<Entry("fatal", "error running with config file", 0)>>,
            fatal |-> TRUE]

\* initEnv: AutomaticEnv, SetEnvPrefix("falcoctl"), SetEnvKeyReplacer("-", "_").
initEnvStep(v) ==
  [v EXCEPT !.automaticEnvApplied = TRUE,
            !.envPrefix           = ToUpper(<<"f","a","l","c","o","c","t","l">>),
            !.envKeyReplacer      = <<"-", "_">>]

\* Faulty variant of debugFlagsFields: one field per flag whose value differs
\* from its default.
debugFlagsByValue(fl) ==
  [n \in {m \in DOMAIN fl : fl[m].Value # DefValue(m)} |-> fl[n].Value]

\* debugFlags: the fields of the trace, one per flag marked Changed.
debugFlagsFields(fl) ==
  [n \in {m \in DOMAIN fl : fl[m].Changed} |-> fl[n].Value]

\* ----------------------------------------------------------------- Init
FileStatuses == {"ok", "notfound", "unreadable", "malformed"}

Init ==
  /\ pc = "validateConfig"
  /\ exitCode = 0
  /\ args \in Partial(Names, [n \in Names |-> ArgValues(n)], Cardinality(Names))
  /\ environ \in Partial(EnvVars, [e \in EnvVars |-> EnvValues(e)], MaxEnv)
  /\ home = "unset"
  /\ fileStatus = "unread"
  /\ fileContent = EmptyMap
  /\ valErrs = <<>>
  /\ flags = Parsed(args)
  /\ viper = ViperInit
  /\ logLevel = "info"
  /\ log = <<>>
  /\ fields = EmptyMap
  /\ setCalls = {}
  /\ resolveRuns = 0
  /\ steps = <<>>
  /\ sigCh = <<>>
  /\ lpc = "select"
  /\ ctxDone = FALSE
  /\ parentDone = FALSE
  /\ cancelCalls = 0
  /\ delivered = 0
  /\ signals = {}

\* -------------------------------------------------------------- actions
\* PersistentPreRun, line 46
validateConfig ==
  /\ pc = "validateConfig"
  /\ \E errs \in ValidateResults :
       LET r == validateConfigStep(errs)
       IN  /\ valErrs' = errs
           /\ log' = log \o r.logs
           /\ pc' = IF r.fatal THEN "exit" ELSE "initLogger"
           /\ exitCode' = IF r.fatal THEN 1 ELSE exitCode
           /\ steps' = IF r.fatal THEN steps ELSE Append(steps, "validateConfig")
  /\ UNCHANGED <<args, environ, home, fileStatus, fileContent, flags, viper, logLevel,
                 fields, setCalls, resolveRuns, sigVars>>

\* PersistentPreRun, lines 47-48
initLogger ==
  /\ pc = "initLogger"
  /\ LET r == initLoggerStep(configOptions.LogLevel)
     IN  /\ logLevel' = r.level
         /\ log' = log \o r.logs
                       \o (IF r.fatal THEN <<>> ELSE <<Entry("debug", "running with args", 0)>>)
         /\ pc' = IF r.fatal THEN "exit" ELSE "initConfig"
         /\ exitCode' = IF r.fatal THEN 1 ELSE exitCode
         /\ steps' = IF r.fatal THEN steps ELSE Append(steps, "initLogger")
  /\ UNCHANGED <<args, environ, home, fileStatus, fileContent, valErrs, flags, viper,
                 fields, setCalls, resolveRuns, sigVars>>

\* PersistentPreRun, line 49
initConfig ==
  /\ pc = "initConfig"
  /\ \E h \in (IF configOptions.ConfigFile = "" THEN {"ok", "error"} ELSE {"unset"}) :
     \E status \in (IF h = "error" THEN {"unread"} ELSE FileStatuses) :
     \E content \in (IF status = "ok" THEN Partial(Names, [n \in Names |-> FileValues(n)], MaxFile)
                                      ELSE {EmptyMap}) :
       LET r == initConfigStep(viper, configOptions.ConfigFile, h, status, content)
       IN  /\ home' = h
           /\ fileStatus' = status
           /\ fileContent' = content
           /\ viper' = r.viper
           /\ log' = log \o r.logs
           /\ pc' = IF r.fatal THEN "exit" ELSE "initEnv"
           /\ exitCode' = IF r.fatal THEN 1 ELSE exitCode
           /\ steps' = IF r.fatal THEN steps ELSE Append(steps, "initConfig")
  /\ UNCHANGED <<args, environ, valErrs, flags, logLevel, fields, setCalls, resolveRuns,
                 sigVars>>

\* Faulty variant of initEnv: the step is passed without enabling the
\* environment lookup (the call is placed after initFlags).
initEnvTooLate ==
  /\ pc = "initEnv"
  /\ pc' = "initFlags"
  /\ steps' = Append(steps, "initEnv")
  /\ UNCHANGED <<exitCode, args, environ, home, fileStatus, fileContent, valErrs, flags,
                 viper, logLevel, log, fields, setCalls, resolveRuns, sigVars>>

\* PersistentPreRun, line 53
initEnv ==
  /\ pc = "initEnv"
  /\ viper' = initEnvStep(viper)
  /\ pc' = "initFlags"
  /\ steps' = Append(steps, "initEnv")
  /\ UNCHANGED <<exitCode, args, environ, home, fileStatus, fileContent, valErrs, flags,
                 logLevel, log, fields, setCalls, resolveRuns, sigVars>>

\* PersistentPreRun, lines 54-60
initFlags ==
  /\ pc = "initFlags"
  /\ LET r == Resolve(flags, viper, environ)
     IN  /\ flags' = r.flags
         /\ viper' = r.viper
         /\ setCalls' = r.sets
  /\ resolveRuns' = resolveRuns + 1
  /\ pc' = "debugFlags"
  /\ steps' = Append(steps, "initFlags")
  /\ UNCHANGED <<exitCode, args, environ, home, fileStatus, fileContent, valErrs,
                 logLevel, log, fields, sigVars>>

\* PersistentPreRun, line 62
debugFlags ==
  /\ pc = "debugFlags"
  /\ fields' = debugFlagsFields(flags)
  /\ log' = Append(log, Entry("debug", "running with options", 0))
  /\ pc' = "done"
  /\ steps' = Append(steps, "debugFlags")
  /\ UNCHANGED <<exitCode, args, environ, home, fileStatus, fileContent, valErrs, flags,
                 viper, logLevel, setCalls, resolveRuns, sigVars>>

Next ==
  \/ validateConfig
  \/ initLogger
  \/ initConfig
  \/ initEnv
  \/ initFlags
  \/ debugFlags

Spec == Init /\ [][Next]_vars

\* ------------------------------------------------- resolution run again
\* initFlags applied once more to the registry it has resolved, with the
\* command line, the environment and the config file as they were.
initFlagsAgain ==
  /\ pc = "done"
  /\ resolveRuns < MaxResolve
  /\ LET r == Resolve(flags, viper, environ)
     IN  /\ flags' = r.flags
         /\ viper' = r.viper
         /\ setCalls' = r.sets
  /\ resolveRuns' = resolveRuns + 1
  /\ UNCHANGED <<pc, exitCode, args, environ, home, fileStatus, fileContent, valErrs,
                 logLevel, log, fields, steps, sigVars>>

NextRerun == Next \/ initFlagsAgain

SpecRerun == Init /\ [][NextRerun]_vars

\* ================================================================ claims
NonExcluded == {n \in Names : ~Excluded(n)}

\* initFlags has run.
Resolved == resolveRuns >= 1

EnvSet(n) == EnvVarOf(n) \in DOMAIN environ

\* C1: every non-excluded option that the command line set holds the
\* command-line value after initFlags, whatever the environment and the
\* config file hold for it.
C1_ExplicitFlagWins ==
  \A n \in NonExcluded :
    (Resolved /\ n \in DOMAIN args) => flags[n].Value = args[n]

\* C1 witness: after initFlags, an option set on the command line for which
\* the environment and the config file both hold another value.
C1_Witness ==
  /\ Resolved
  /\ \E n \in NonExcluded :
       /\ n \in DOMAIN args
       /\ EnvSet(n) /\ environ[EnvVarOf(n)] \notin {"", args[n]}
       /\ n \in DOMAIN fileContent /\ fileContent[n] # args[n]

\* C2: every non-excluded option that the command line did not set and whose
\* prefixed environment variable is set holds that environment value after
\* initFlags, whatever the config file contains.
C2_EnvValueWins ==
  \A n \in NonExcluded :
    (Resolved /\ n \notin DOMAIN args /\ EnvSet(n))
      => flags[n].Value = environ[EnvVarOf(n)]

\* C3: every non-excluded option with no command-line value and no
\* environment variable holds, after initFlags, the config file's value if
\* the file has one and its compiled default otherwise.
C3_FileThenDefault ==
  \A n \in NonExcluded :
    (Resolved /\ n \notin DOMAIN args /\ ~EnvSet(n))
      => flags[n].Value = (IF n \in DOMAIN fileContent THEN fileContent[n]
                                                       ELSE DefValue(n))

\* C4: in every state, an excluded option (config, loglevel, help) holds its
\* command-line value if one was given and its compiled default otherwise,
\* never a value from the environment or the config file.
C4_ExcludedUntouched ==
  \A n \in {"config", "loglevel", "help"} :
    /\ flags[n].Value = (IF n \in DOMAIN args THEN args[n] ELSE DefValue(n))
    /\ flags[n].Changed = (n \in DOMAIN args)

\* C4 witness: bootstrap has finished and an excluded option has an entry
\* of its name in the environment and in the loaded config file.
C4_Witness ==
  /\ pc = "done"
  /\ \E n \in {"config", "loglevel", "help"} :
       /\ EnvSet(n) /\ environ[EnvVarOf(n)] # ""
       /\ n \in DOMAIN viper.config

\* A step that runs initFlags on a registry initFlags has already resolved.
SecondRun == resolveRuns >= 1 /\ resolveRuns' = resolveRuns + 1

ValidationLog(errs) ==
  [i \in 1..Len(errs) |-> Entry("error", "error validating config options", errs[i])]
    \o <<Entry("fatal", "exiting for validation errors", 0)>>

\* C6: once Validate has returned a non-empty error list, every error of
\* the list has been logged and the process has exited with status 1, with
\* the logger not configured, no config file read, environment binding not
\* enabled and no option resolved.
C6_ValidationGate ==
  valErrs # <<>> =>
    /\ pc = "exit" /\ exitCode = 1
    /\ log = ValidationLog(valErrs)
    /\ steps = <<>>
    /\ logLevel = "info"
    /\ fileStatus = "unread" /\ viper = ViperInit
    /\ resolveRuns = 0 /\ flags = Parsed(args)

\* C6 witness: Validate returned two errors and the process has exited.
C6_Witness == Len(valErrs) >= 2 /\ pc = "exit"

\* initConfig has made its attempt to read the config file.
ConfigTried == fileStatus # "unread"

\* C8: with no explicit config path and no file at the default location,
\* initConfig does not end the process: bootstrap goes on to environment
\* binding and resolution, and the file layer of the store stays empty.
C8_AbsentDefaultFileIsSkipped ==
  (configOptions.ConfigFile = "" /\ fileStatus = "notfound") =>
    /\ pc \in {"initEnv", "initFlags", "debugFlags", "done"}
    /\ exitCode = 0
    /\ viper.config = EmptyMap
    /\ (Resolved => \A n \in NonExcluded :
                      (n \notin DOMAIN args /\ ~EnvSet(n)) => flags[n].Value = DefValue(n))

\* C8 witness: no explicit path, no file at the default location, and the
\* bootstrap has run to its end.
C8_Witness ==
  configOptions.ConfigFile = "" /\ fileStatus = "notfound" /\ pc = "done"

\* C9: initConfig ends the process, before environment binding and
\* resolution, when the file is found but malformed (default or explicit
\* path) and when an explicit path is missing or unreadable; a missing file
\* is skipped only when no explicit path was given.
C9_ConfigLoadFatal ==
  /\ ( \/ fileStatus = "malformed"
       \/ (configOptions.ConfigFile # "" /\ fileStatus \in {"notfound", "unreadable"}) )
       => /\ pc = "exit" /\ exitCode = 1
          /\ ~viper.automaticEnvApplied
          /\ resolveRuns = 0
  /\ (fileStatus = "notfound" /\ pc # "exit") => configOptions.ConfigFile = ""

\* C9 witness: an explicit path whose file is missing has ended the process.
C9_Witness ==
  configOptions.ConfigFile # "" /\ fileStatus = "notfound" /\ pc = "exit"

AllSteps == <<"validateConfig", "initLogger", "initConfig", "initEnv", "initFlags",
              "debugFlags">>

\* The bootstrap has come to its end, by a fatal exit or by completing.
Ended == pc \in {"exit", "done"}

\* The causes of a non-zero exit that C10 lists.
ListedCause ==
  \/ valErrs # <<>>
  \/ (configOptions.ConfigFile # "" /\ fileStatus \in {"notfound", "unreadable", "malformed"})
  \/ (configOptions.ConfigFile = "" /\ fileStatus = "malformed")
  \/ (valErrs = <<>> /\ ~ParseLevelOK(configOptions.LogLevel))

\* The causes C10 does not list: homedir.Dir() fails, or the file found at
\* the default location cannot be read.
UnlistedCause ==
  \/ home = "error"
  \/ (configOptions.ConfigFile = "" /\ fileStatus = "unreadable")

\* C10 (as stated): the bootstrap ends with a non-zero exit exactly when a
\* validation error, a load error of an explicitly named file, a malformed
\* file at the default location or an unparseable log level occurred;
\* otherwise it completes all its steps.
C10_ExitIffListedCause ==
  /\ Ended => ((pc = "exit" /\ exitCode = 1) <=> ListedCause)
  /\ pc = "done" => (steps = AllSteps /\ exitCode = 0)
  /\ ~Ended => \E i \in 1..Len(AllSteps) : pc = AllSteps[i] /\ Len(steps) = i - 1

\* C10 (amended): the bootstrap ends with a non-zero exit exactly when one
\* of the listed causes occurred, or the home directory could not be
\* determined (no explicit path given), or the file found at the default
\* location could not be read; otherwise it completes all its steps.
C10_ExitIffCause ==
  /\ Ended => ((pc = "exit" /\ exitCode = 1) <=> (ListedCause \/ UnlistedCause))
  /\ pc = "done" => (steps = AllSteps /\ exitCode = 0)
  /\ ~Ended => \E i \in 1..Len(AllSteps) : pc = AllSteps[i] /\ Len(steps) = i - 1

\* C10 witness: the process has exited at initLogger for an unparseable
\* log level after validation passed.
C10_Witness ==
  pc = "exit" /\ valErrs = <<>> /\ ~ParseLevelOK(configOptions.LogLevel)

\* ========================================================== WithSignals
\* Capacity of sigCh: make(chan os.Signal, 1).
SigChCap == 1

\* The signals signal.Notify relays: os.Interrupt and syscall.SIGTERM.
Notified == {"SIGINT", "SIGTERM"}

\* The process is running: logger.Fatal has not ended it, and no signal
\* has killed it.
Alive == pc \notin {"exit", "killed"}

\* The os/signal package relays a notified signal with a non-blocking send:
\* the signal is dropped when the channel is full.
Deliver ==
  /\ Alive
  /\ delivered < MaxSignals
  /\ \E s \in Notified :
       /\ sigCh' = IF Len(sigCh) < SigChCap THEN Append(sigCh, s) ELSE sigCh
       /\ signals' = signals \cup {s}
  /\ delivered' = delivered + 1
  /\ UNCHANGED <<bootVars, lpc, ctxDone, parentDone, cancelCalls>>

\* The owner of the parent context cancels it; context.WithCancel
\* propagates the cancellation to the derived context.
ParentCancel ==
  /\ Alive
  /\ ~parentDone
  /\ parentDone' = TRUE
  /\ ctxDone' = TRUE
  /\ UNCHANGED <<bootVars, sigCh, lpc, cancelCalls, delivered, signals>>

\* Faulty variant of ListenerDone: the goroutine returns without waiting for
\* the context to be done.
ListenerDoneUnguarded ==
  /\ Alive
  /\ lpc = "select"
  /\ lpc' = "cancel"
  /\ UNCHANGED <<bootVars, sigCh, ctxDone, parentDone, cancelCalls, delivered, signals>>

\* select, case <-ctx.Done(): return
ListenerDone ==
  /\ Alive
  /\ lpc = "select"
  /\ ctxDone
  /\ lpc' = "cancel"
  /\ UNCHANGED <<bootVars, sigCh, ctxDone, parentDone, cancelCalls, delivered, signals>>

\* Faulty variant of ListenerSignal: the goroutine reports the signal and
\* goes back to its select.
ListenerSignalStay ==
  /\ Alive
  /\ lpc = "select"
  /\ sigCh # <<>>
  /\ log' = Append(log, Entry("info",
                              IF Head(sigCh) = "SIGINT" THEN "received SIGINT"
                                                        ELSE "received SIGTERM", 0))
  /\ sigCh' = Tail(sigCh)
  /\ UNCHANGED <<pc, exitCode, args, environ, home, fileStatus, fileContent, valErrs,
                 flags, viper, logLevel, fields, setCalls, resolveRuns, steps,
                 lpc, ctxDone, parentDone, cancelCalls, delivered, signals>>

\* Faulty variant of ListenerSignal: the goroutine ends the process when a
\* signal fires.
ListenerSignalExits ==
  /\ Alive
  /\ lpc = "select"
  /\ sigCh # <<>>
  /\ log' = Append(log, Entry("info",
                              IF Head(sigCh) = "SIGINT" THEN "received SIGINT"
                                                        ELSE "received SIGTERM", 0))
  /\ sigCh' = Tail(sigCh)
  /\ lpc' = "cancel"
  /\ pc' = "exit"
  /\ exitCode' = 1
  /\ UNCHANGED <<args, environ, home, fileStatus, fileContent, valErrs,
                 flags, viper, logLevel, fields, setCalls, resolveRuns, steps,
                 ctxDone, parentDone, cancelCalls, delivered, signals>>

\* select, case s := <-sigCh: log which signal fired, return
ListenerSignal ==
  /\ Alive
  /\ lpc = "select"
  /\ sigCh # <<>>
  /\ log' = Append(log, Entry("info",
                              IF Head(sigCh) = "SIGINT" THEN "received SIGINT"
                                                        ELSE "received SIGTERM", 0))
  /\ sigCh' = Tail(sigCh)
  /\ lpc' = "cancel"
  /\ UNCHANGED <<pc, exitCode, args, environ, home, fileStatus, fileContent, valErrs,
                 flags, viper, logLevel, fields, setCalls, resolveRuns, steps,
                 ctxDone, parentDone, cancelCalls, delivered, signals>>

\* Faulty variant of ListenerCancel: the goroutine goes back to its select.
ListenerCancelLoop ==
  /\ Alive
  /\ lpc = "cancel"
  /\ ctxDone' = TRUE
  /\ cancelCalls' = cancelCalls + 1
  /\ lpc' = "select"
  /\ UNCHANGED <<bootVars, sigCh, parentDone, delivered, signals>>

\* defer cancel(): runs when the goroutine returns, which then ends.
ListenerCancel ==
  /\ Alive
  /\ lpc = "cancel"
  /\ ctxDone' = TRUE
  /\ cancelCalls' = cancelCalls + 1
  /\ lpc' = "exit"
  /\ UNCHANGED <<bootVars, sigCh, parentDone, delivered, signals>>

SigNext ==
  \/ Deliver
  \/ ParentCancel
  \/ ListenerDone
  \/ ListenerSignal
  \/ ListenerCancel

\* The bootstrap of a run without command-line flags, interleaved with the
\* signal listener.
InitSig ==
  /\ Init
  /\ args = EmptyMap
  /\ DOMAIN environ \subseteq {EnvRegistryUrl}

NextSig == Next \/ SigNext

SpecSig == InitSig /\ [][NextSig]_vars

\* Number of log lines that report a received signal.
SigLines(l) ==
  Cardinality({i \in 1..Len(l) : l[i].msg \in {"received SIGINT", "received SIGTERM"}})

\* C7: the derived context never returns from Cancelled to Active; the
\* listener cancels at most once and reports at most one signal; once a
\* signal has moved the context to Cancelled (the listener has reported it,
\* cancelled and returned), a further signal changes neither the context
\* nor the log, causes no second cancellation and no exit.
C7_CancelledOnce ==
  /\ [][ctxDone => ctxDone']_vars
  /\ [](cancelCalls <= 1 /\ SigLines(log) <= 1)
  /\ [](lpc = "exit" => (ctxDone /\ cancelCalls = 1))
  /\ [][(lpc = "exit" /\ SigLines(log) = 1)
          => /\ lpc' = "exit" /\ ctxDone' /\ cancelCalls' = cancelCalls
             /\ SigLines(log') = SigLines(log)
             /\ (delivered' # delivered => (log' = log /\ pc' = pc /\ exitCode' = exitCode))]_vars

\* C7 witness: a signal cancelled the context, the listener has returned,
\* and a second signal has been delivered since (it sits in the channel).
C7_Witness ==
  /\ ctxDone /\ ~parentDone /\ lpc = "exit" /\ SigLines(log) = 1
  /\ delivered = 2 /\ Len(sigCh) = 1

\* ================================================== uncatchable signals
\* SIGKILL cannot be relayed by signal.Notify: the kernel ends the process,
\* and with it the listener goroutine, at once.
Kill ==
  /\ Alive
  /\ "SIGKILL" \notin signals
  /\ signals' = signals \cup {"SIGKILL"}
  /\ pc' = "killed"
  /\ UNCHANGED <<exitCode, args, environ, home, fileStatus, fileContent, valErrs,
                 flags, viper, logLevel, log, fields, setCalls, resolveRuns, steps,
                 sigCh, lpc, ctxDone, parentDone, cancelCalls, delivered>>

NextKill == NextSig \/ Kill

\* The listener goroutine is scheduled fairly by the Go runtime: a step of
\* it that stays possible is eventually taken.
Fairness ==
  /\ WF_vars(ListenerDone)
  /\ WF_vars(ListenerSignal)
  /\ WF_vars(ListenerCancel)

SpecFair == InitSig /\ [][NextKill]_vars /\ Fairness

\* C11: after a SIGKILL and after a SIGTERM has been sent to the process,
\* the derived context is eventually Cancelled (unless logger.Fatal ends
\* the process during the bootstrap).
C11_KillAndTermCancel ==
  \A s \in {"SIGKILL", "SIGTERM"} : (s \in signals) ~> (ctxDone \/ pc = "exit")

\* C12: the steps of PersistentPreRun happen in the order validation, logger
\* configuration, config-file loading, environment binding, resolution,
\* debug trace, each at most once and only after the previous one finished
\* without a fatal exit; resolution starts only after the file load and the
\* environment binding have completed.
C12_StepOrder ==
  /\ Len(steps) <= Len(AllSteps)
  /\ \A i \in 1..Len(steps) : steps[i] = AllSteps[i]
  /\ pc = "done" => steps = AllSteps
  /\ pc = "exit" => (exitCode = 1 /\ Len(steps) < Len(AllSteps))
  /\ pc \notin {"done", "exit"} => pc = AllSteps[Len(steps) + 1]
  /\ resolveRuns <= 1
  /\ Resolved <=> Len(steps) >= 5
  /\ (pc = "initFlags" \/ Resolved) =>
       /\ ConfigTried /\ fileStatus \in {"ok", "notfound"}
       /\ viper.automaticEnvApplied
       /\ viper.envPrefix = <<"F","A","L","C","O","C","T","L">>
       /\ viper.envKeyReplacer = <<"-", "_">>

\* C12 witness: all six steps have run, with a config file loaded.
C12_Witness == pc = "done" /\ steps = AllSteps /\ fileStatus = "ok"

\* The step that runs initFlags.
ResolveStep == resolveRuns' = resolveRuns + 1

\* The value the store resolves for n when initFlags visits it.
ResolvedValue(n) ==
  GetString(SetDefault(BindPFlags(viper, flags), n, DefValue(n)), flags, environ, n)

\* C13: for every non-excluded option, initFlags calls flags.Set exactly
\* when the value resolved from the store differs from the option's
\* default; when it equals the default, the option's value and Changed
\* marker are left as they were.
C13_WriteIffNotDefault ==
  [][ResolveStep =>
       \A n \in NonExcluded :
         /\ (n \in setCalls') <=> (ResolvedValue(n) # DefValue(n))
         /\ (ResolvedValue(n) = DefValue(n)) => flags'[n] = flags[n]]_vars

\* C13 witness: initFlags has run, it called flags.Set for one non-excluded
\* option and not for the other.
C13_Witness ==
  /\ Resolved
  /\ \E n, m \in NonExcluded : n \in setCalls /\ m \notin setCalls

\* The non-excluded options the command line set.
Explicit == NonExcluded \cap DOMAIN args

\* C14 (as stated): initFlags performs no set operation on an option that
\* the command line set, whatever its value.
C14_ExplicitNeverSet == Resolved => \A n \in Explicit : n \notin setCalls

\* C14 (amended): initFlags leaves an option that the command line set with
\* the value and the Changed marker the command line gave it; it does call
\* flags.Set on it, with that same value, exactly when the value differs
\* from the option's default.
C14_ExplicitKept ==
  Resolved =>
    \A n \in Explicit :
      /\ flags[n] = [Value |-> args[n], Changed |-> TRUE]
      /\ (n \in setCalls) <=> (args[n] # DefValue(n))

\* C14 witness: initFlags has called flags.Set on an option that the command
\* line set, while the environment holds another value for it.
C14_Witness ==
  /\ Resolved
  /\ \E n \in Explicit :
       n \in setCalls /\ EnvSet(n) /\ environ[EnvVarOf(n)] \notin {"", args[n]}

\* The value the environment or the config file gives n, else its default.
SourceValue(n) ==
  IF EnvSet(n) /\ environ[EnvVarOf(n)] # "" THEN environ[EnvVarOf(n)]
  ELSE IF n \in DOMAIN fileContent THEN fileContent[n]
  ELSE DefValue(n)

\* The option's type accepts the text v.
Accepts(n, v) == FlagType(n) = "string" \/ ParseBoolOK(v)

\* initFlags has written a value of the environment or the file back to n.
WrittenBack(n) ==
  /\ Resolved /\ n \in NonExcluded /\ n \notin DOMAIN args
  /\ SourceValue(n) # DefValue(n) /\ Accepts(n, SourceValue(n))

\* C15 (as stated): in every state, an option's Changed marker is true
\* exactly when the command line supplied the option.
C15_ChangedIffCommandLine ==
  \A n \in Names : flags[n].Changed <=> (n \in DOMAIN args)

\* C15 (amended): in every state, an option's Changed marker is true exactly
\* when the command line supplied the option or initFlags has written back
\* to it a value of the environment or the config file that differs from
\* its default and that its type accepts.
C15_ChangedIffSetOrWrittenBack ==
  \A n \in Names : flags[n].Changed <=> (n \in DOMAIN args \/ WrittenBack(n))

\* C15 witness: after initFlags an option that the command line did not set
\* is marked Changed.
C15_Witness ==
  Resolved /\ \E n \in Names : n \notin DOMAIN args /\ flags[n].Changed

\* C16: after initFlags, every non-excluded option holds the value the
\* store resolves for its name, also when flags.Set rejected the write-back.
C16_RegistryEqualsStore ==
  Resolved =>
    \A n \in NonExcluded : flags[n].Value = GetString(viper, flags, environ, n)

\* An interrupt or a termination signal has been sent to the process.
SignalSent == signals \cap Notified # {}

\* C17: the derived context is Cancelled only if the parent context has been
\* cancelled or a SIGINT or SIGTERM has been received; with neither event it
\* is Active in every state, and the listener has not left its select.
C17_CancelledOnlyOnEvent ==
  /\ ctxDone => (parentDone \/ SignalSent)
  /\ (ctxDone /\ ~parentDone) => (SigLines(log) = 1 /\ cancelCalls = 1)
  /\ (~parentDone /\ ~SignalSent) => (~ctxDone /\ lpc = "select" /\ cancelCalls = 0)

\* C17 witness: one signal, and no cancellation of the parent, has moved the
\* context to Cancelled.
C17_Witness ==
  ctxDone /\ ~parentDone /\ delivered = 1 /\ SigLines(log) = 1 /\ sigCh = <<>>

\* The bootstrap and the listener under fair scheduling, with the signals
\* signal.Notify relays.
SpecSigFair == InitSig /\ [][NextSig]_vars /\ Fairness

\* One of the two events the listener waits for has happened.
CancelEvent == parentDone \/ delivered > 0

ExpectedFlag(n) ==
  IF n \in DOMAIN args THEN [Value |-> args[n], Changed |-> TRUE]
  ELSE IF ~Resolved \/ Excluded(n) \/ SourceValue(n) = DefValue(n)
       THEN [Value |-> DefValue(n), Changed |-> FALSE]
  ELSE IF Accepts(n, SourceValue(n))
       THEN [Value |-> FlagAsString(n, SourceValue(n)), Changed |-> TRUE]
  ELSE [Value |-> "false", Changed |-> FALSE]

\* A step of the listener, of the signal relay or of the parent's owner.
SignalStep == sigVars' # sigVars

\* C19: in every interleaving, a step of the signal listener (or the arrival
\* of a signal) changes nothing of the store, the flag registry or the
\* position of the bootstrap; no bootstrap step is stopped or skipped; and
\* the resolved option values are those the inputs alone determine, as in a
\* run where no signal arrives.
C19_ListenerIndependent ==
  /\ [][SignalStep =>
          UNCHANGED <<pc, exitCode, args, environ, home, fileStatus, fileContent,
                      valErrs, flags, viper, logLevel, fields, setCalls,
                      resolveRuns, steps>>]_vars
  /\ [][(SignalStep /\ log' # log) =>
          (Len(log') = Len(log) + 1 /\ SigLines(log') = SigLines(log) + 1)]_vars
  /\ [](pc = "done" => steps = AllSteps)
  /\ [](pc \notin {"done", "exit"} => pc = AllSteps[Len(steps) + 1])
  /\ [](\A n \in Names : flags[n] = ExpectedFlag(n))

\* C19 witness: a signal was received and reported during the bootstrap,
\* before the debug trace, and the bootstrap has completed with a value
\* written back from the environment or the file.
C19_Witness ==
  /\ pc = "done" /\ ctxDone /\ setCalls # {}
  /\ \E i, j \in 1..Len(log) :
       /\ i < j
       /\ log[i].msg \in {"received SIGINT", "received SIGTERM"}
       /\ log[j].msg = "running with options"

\* C20 (as stated): the debug trace lists exactly the options whose final
\* value differs from the default, each with its final value.
C20_TraceListsNonDefault ==
  pc = "done" =>
    /\ DOMAIN fields = {n \in Names : flags[n].Value # DefValue(n)}
    /\ \A n \in DOMAIN fields : fields[n] = flags[n].Value

\* C20 (amended): the debug trace lists exactly the options whose Changed
\* marker is set, each with its final value: those given on the command
\* line, also with their default value, and those initFlags wrote back from
\* the environment or the config file; an option whose write-back was
\* rejected is not listed.
C20_TraceListsChanged ==
  pc = "done" =>
    /\ DOMAIN fields = {n \in Names : n \in DOMAIN args \/ WrittenBack(n)}
    /\ \A n \in DOMAIN fields : fields[n] = ExpectedFlag(n).Value /\ fields[n] = flags[n].Value

\* C20 witness: the trace lists an option that the command line set to its
\* default value and omits an option whose final value is not its default.
C20_Witness ==
  /\ pc = "done"
  /\ \E n \in DOMAIN fields : fields[n] = DefValue(n)
  /\ \E m \in Names \ DOMAIN fields : flags[m].Value # DefValue(m)

====
